---- MODULE Spec2Model ----
(***************************************************************************)
(* Model of src/concrete/conc.py: the class Concrete (a rectangular        *)
(* concrete section) with its constructor and its five capacity methods.   *)
(*                                                                         *)
(* Numbers.  Python floats are modelled as decimal floating-point numbers  *)
(* <<m, e>> of value m * 10^e, with a mantissa of four significant digits  *)
(* (m = 0, or 1000 <= |m| <= 9999) and an unbounded exponent; every        *)
(* arithmetic operation rounds its exact result toward zero to four        *)
(* digits, as a float operation rounds to 53 bits.  Python ints that the   *)
(* code mixes with floats are small enough to be exact in this format.     *)
(***************************************************************************)
EXTENDS Integers, Sequences, FiniteSets, TLC

VARIABLES section, args, ret, ncalls

vars == <<section, args, ret, ncalls>>

(***************************************************************************)
(* Float arithmetic                                                        *)
(***************************************************************************)
RECURSIVE Pow10(_)
Pow10(k) == IF k = 0 THEN 1 ELSE 10 * Pow10(k - 1)

Abs(n) == IF n < 0 THEN -n ELSE n

RECURSIVE NormMag(_, _)
NormMag(m, e) ==
    IF m = 0 THEN <<0, 0>>
    ELSE IF m >= 10000 THEN NormMag(m \div 10, e + 1)
    ELSE IF m < 1000 THEN NormMag(m * 10, e - 1)
    ELSE <<m, e>>

\* the float nearest to m * 10^e on the side of zero
Fl(m, e) ==
    IF m < 0 THEN LET r == NormMag(-m, e) IN <<-r[1], r[2]>>
    ELSE NormMag(m, e)

FromInt(n) == Fl(n, 0)

FNeg(x) == <<-x[1], x[2]>>

FMul(x, y) == Fl(x[1] * y[1], x[2] + y[2])

\* x / y for y # 0 (the callers raise ZeroDivisionError before a division by 0)
FDiv(x, y) ==
    LET q == (Abs(x[1]) * 10000) \div Abs(y[1])
        s == IF (x[1] < 0) = (y[1] < 0) THEN 1 ELSE -1
    IN  Fl(s * q, x[2] - y[2] - 4)

FAdd(x, y) ==
    IF x[1] = 0 THEN y
    ELSE IF y[1] = 0 THEN x
    ELSE IF x[2] >= y[2]
         THEN IF x[2] - y[2] > 4 THEN x
              ELSE Fl(x[1] * Pow10(x[2] - y[2]) + y[1], y[2])
         ELSE IF y[2] - x[2] > 4 THEN y
              ELSE Fl(y[1] * Pow10(y[2] - x[2]) + x[1], x[2])

FSub(x, y) == FAdd(x, FNeg(y))

FLt(x, y) == FSub(x, y)[1] < 0

FLe(x, y) == ~ FLt(y, x)

\* Python's max(x, y) and min(x, y): the first argument wins a tie
FMax(x, y) == IF FLt(x, y) THEN y ELSE x

FMin(x, y) == IF FLt(y, x) THEN y ELSE x

\* math.floor: the integer floor(x)
FFloor(x) ==
    IF x[2] >= 0 THEN x[1] * Pow10(x[2])
    ELSE IF -x[2] > 8 THEN (IF x[1] < 0 THEN -1 ELSE 0)
    ELSE x[1] \div Pow10(-x[2])

RECURSIVE SqrtBisect(_, _, _)
SqrtBisect(n, lo, hi) ==
    IF hi - lo <= 1 THEN lo
    ELSE LET mid == (lo + hi) \div 2
         IN  IF mid * mid <= n THEN SqrtBisect(n, mid, hi)
             ELSE SqrtBisect(n, lo, mid)

\* x ** 0.5 for x >= 0
FSqrt(x) ==
    IF x[1] = 0 THEN <<0, 0>>
    ELSE IF x[2] % 2 = 0
         THEN Fl(SqrtBisect(x[1] * 10000, 0, 31623), (x[2] - 4) \div 2)
         ELSE Fl(SqrtBisect(x[1] * 100000, 0, 31623), (x[2] - 5) \div 2)

RECURSIVE CbrtBisect(_, _, _)
CbrtBisect(n, lo, hi) ==
    IF hi - lo <= 1 THEN lo
    ELSE LET mid == (lo + hi) \div 2
         IN  IF mid * mid * mid <= n THEN CbrtBisect(n, mid, hi)
             ELSE CbrtBisect(n, lo, mid)

\* x ** (1/3) for x >= 0
FCbrt(x) ==
    IF x[1] = 0 THEN <<0, 0>>
    ELSE LET k == 3 + (x[2] % 3)
         IN  Fl(CbrtBisect(x[1] * Pow10(k), 0, 1000), (x[2] - k) \div 3)

\* math.pi
Pi == Fl(3142, -3)

Zero == <<0, 0>>

(***************************************************************************)
(* Inputs of the constructor                                               *)
(***************************************************************************)
\* d = None
NoneD == <<>>

DSet == {FromInt(30), FromInt(50), FromInt(200)}

bSet == {FromInt(0), FromInt(1000)}

coverSet == {FromInt(20), FromInt(40)}

\* fc >= 0: a negative fc makes fc ** 0.5 a complex number, not modelled
fcSet == {FromInt(32), Fl(1199, -1), FromInt(120), FromInt(200)}

diameterSet == {Fl(76, -1), FromInt(12)}

spacingSet == {FromInt(0), FromInt(100)}

ductilitySet == {"L", "l", "N", "n", "X"}

fsySet == {FromInt(500)}

dSet == {NoneD, FromInt(0), FromInt(5)}

\* the factors f that deemed documents
fSet == {Fl(19, -2), Fl(2, -1), Fl(24, -2)}

\* the longest sequence of capacity calls made on one section
MaxCalls == 2

(***************************************************************************)
(* Concrete.__init__                                                       *)
(***************************************************************************)
NoSection == [live |-> FALSE]

\* Python's truth value of the argument d: None and 0 are false
Truthy(d) == d # NoneD /\ d[1] # 0

EffectiveDepth(D, cover, diameter, d) ==
    IF Truthy(d) THEN d
    ELSE FSub(FSub(D, cover), FDiv(diameter, FromInt(2)))

Fctf(fc) == FMul(Fl(6, -1), FSqrt(fc))

BarArea(diameter) == FDiv(FMul(FMul(diameter, diameter), Pi), FromInt(4))

A_bar(diameter) == FFloor(BarArea(diameter))

\* mutant: the area scaled by the bar count before it is floored
SteelArea_scale_then_floor(diameter, b, spacing) ==
    FromInt(FFloor(FMul(BarArea(diameter), FDiv(b, spacing))))

\* for spacing # 0
SteelArea(diameter, b, spacing) ==
    FMul(FromInt(A_bar(diameter)), FDiv(b, spacing))

\* mutant: the floor 0.67 forgotten
StressBlockA2_unclamped(fc) == FSub(Fl(85, -2), FMul(Fl(15, -4), fc))

StressBlockA2(fc) == FMax(FSub(Fl(85, -2), FMul(Fl(15, -4), fc)), Fl(67, -2))

StressBlockGamma(fc) == FMax(FSub(Fl(97, -2), FMul(Fl(25, -4), fc)), Fl(67, -2))

NewSection(D, b, cover, fc, diameter, spacing, ductility, fsy, d) ==
    [live |-> TRUE, D |-> D, b |-> b, cover |-> cover, fc |-> fc,
     diameter |-> diameter, spacing |-> spacing, ductility |-> ductility,
     fsy |-> fsy,
     d |-> EffectiveDepth(D, cover, diameter, d),
     fctf |-> Fctf(fc),
     Ast |-> SteelArea(diameter, b, spacing),
     a2 |-> StressBlockA2(fc),
     gamma |-> StressBlockGamma(fc)]

\* what a call leaves behind: the value it returned or the exception it raised
Returned(op, arg, v) == [op |-> op, arg |-> arg, kind |-> "ok", val |-> v]

Raised(op, arg, exc) == [op |-> op, arg |-> arg, kind |-> exc, val |-> Zero]

NoArgs == [given |-> FALSE]

Concrete(D, b, cover, fc, diameter, spacing, ductility, fsy, d) ==
    /\ section = NoSection
    /\ args = NoArgs
    /\ args' = [given |-> TRUE, D |-> D, b |-> b, cover |-> cover, fc |-> fc,
                diameter |-> diameter, spacing |-> spacing,
                ductility |-> ductility, fsy |-> fsy, d |-> d]
    /\ ncalls' = 0
    /\ IF spacing[1] = 0
       THEN /\ section' = NoSection
            /\ ret' = Raised("__init__", Zero, "ZeroDivisionError")
       ELSE /\ section' = NewSection(D, b, cover, fc, diameter, spacing,
                                     ductility, fsy, d)
            /\ ret' = Returned("__init__", Zero, Zero)

(***************************************************************************)
(* The capacity methods: what each returns or raises for a section s       *)
(***************************************************************************)
PlainConcreteBending(s) ==
    LET D == FSub(s.D, FromInt(50))
        phi == Fl(6, -1)
        F == FDiv(FMul(FMul(s.fctf, s.b), D), FromInt(2))
        Muo == FDiv(FDiv(FMul(FMul(F, D), FromInt(2)), FromInt(3)),
                    FromInt(1000000))
    IN  Returned("plain_concrete_bending", Zero, FMul(Muo, phi))

\* mutant: the reduced depth clamped at zero
PlainConcreteShear_clamped(s) ==
    LET D == FMax(FSub(s.D, FromInt(50)), Zero)
        phi == Fl(6, -1)
        Vu == FDiv(FMul(FMul(FMul(Fl(15, -2), s.b), D), FCbrt(s.fc)),
                   FromInt(1000))
    IN  Returned("plain_concrete_shear", Zero, FMul(Vu, phi))

PlainConcreteShear(s) ==
    LET D == FSub(s.D, FromInt(50))
        phi == Fl(6, -1)
        Vu == FDiv(FMul(FMul(FMul(Fl(15, -2), s.b), D), FCbrt(s.fc)),
                   FromInt(1000))
    IN  Returned("plain_concrete_shear", Zero, FMul(Vu, phi))

\* the locals of bending, for a section on which no division is by zero
Dn(s) == FDiv(FMul(s.Ast, s.fsy), FMul(FMul(FMul(s.a2, s.fc), s.b), s.gamma))

Ku(s) == FDiv(Dn(s), s.d)

Muo(s) ==
    FDiv(FMul(FMul(s.Ast, s.fsy),
              FSub(s.d, FMul(FMul(FMul(Fl(5, -1), s.gamma), Ku(s)), s.d))),
         FromInt(1000000))

\* mutant: the lower clamp of the Normal class forgotten
Phi_no_floor(s) ==
    IF s.ductility \in {"l", "L"} THEN Fl(65, -2)
    ELSE IF s.ductility \in {"n", "N"}
         THEN FMin(FSub(Fl(124, -2),
                        FDiv(FMul(FromInt(13), Ku(s)), FromInt(12))),
                   Fl(85, -2))
         ELSE Fl(65, -2)

Phi(s) ==
    IF s.ductility \in {"l", "L"} THEN Fl(65, -2)
    ELSE IF s.ductility \in {"n", "N"}
         THEN FMin(FMax(FSub(Fl(124, -2),
                             FDiv(FMul(FromInt(13), Ku(s)), FromInt(12))),
                        Fl(65, -2)),
                   Fl(85, -2))
         ELSE Fl(65, -2)

Bending(s) ==
    IF FMul(FMul(FMul(s.a2, s.fc), s.b), s.gamma)[1] = 0
    THEN Raised("bending", Zero, "ZeroDivisionError")
    ELSE IF s.d[1] = 0
    THEN Raised("bending", Zero, "ZeroDivisionError")
    ELSE Returned("bending", Zero, FMul(Muo(s), Phi(s)))

\* the locals of shear
Dv(s) == FMax(FMul(Fl(72, -2), s.D), FMul(Fl(9, -1), s.d))

Kv(s) ==
    FMin(Fl(1, -1),
         FDiv(FromInt(200), FAdd(FromInt(1000), FMul(Fl(13, -1), Dv(s)))))

Vuc(s) ==
    FDiv(FMul(FMul(FMul(Kv(s), s.b), Dv(s)), FMin(FromInt(8), FSqrt(s.fc))),
         FromInt(1000))

\* the names bound where line 192 is evaluated: the locals of shear (the
\* module and the builtins define no ks)
ShearNames == {"self", "d", "D", "b", "fc", "phi", "dv", "bv", "thetav", "kv", "Vuc"}

Shear(s) ==
    IF FAdd(FromInt(1000), FMul(Fl(13, -1), Dv(s)))[1] = 0
    THEN Raised("shear", Zero, "ZeroDivisionError")
    ELSE IF "ks" \notin ShearNames
    THEN Raised("shear", Zero, "NameError")
    ELSE Returned("shear", Zero, FMul(Vuc(s), Fl(7, -1)))

\* mutant: the depth of concrete below the steel taken for d
Deemed_below_steel(s, f) ==
    IF s.d[1] = 0 \/ s.fsy[1] = 0
    THEN Raised("deemed", f, "ZeroDivisionError")
    ELSE LET q == FDiv(s.D, s.d)
             A_min == FDiv(FMul(FMul(FMul(FMul(s.b, FSub(s.d, s.D)), f),
                                     FMul(q, q)),
                                s.fctf),
                           s.fsy)
         IN  Returned("deemed", f, A_min)

Deemed(s, f) ==
    IF s.d[1] = 0 \/ s.fsy[1] = 0
    THEN Raised("deemed", f, "ZeroDivisionError")
    ELSE LET q == FDiv(s.D, s.d)
             A_min == FDiv(FMul(FMul(FMul(FMul(s.b, s.d), f), FMul(q, q)),
                                s.fctf),
                           s.fsy)
         IN  Returned("deemed", f, A_min)

(***************************************************************************)
(* The calls                                                               *)
(***************************************************************************)
Callable == section # NoSection /\ ncalls < MaxCalls

\* mutant: the reduction by 50 mm stored back into self.D
plain_concrete_bending_stores_D ==
    /\ Callable
    /\ ret' = PlainConcreteBending(section)
    /\ ncalls' = ncalls + 1
    /\ section' = [section EXCEPT !.D = FSub(section.D, FromInt(50))]
    /\ UNCHANGED args

plain_concrete_bending ==
    /\ Callable
    /\ ret' = PlainConcreteBending(section)
    /\ ncalls' = ncalls + 1
    /\ UNCHANGED <<section, args>>

plain_concrete_shear ==
    /\ Callable
    /\ ret' = PlainConcreteShear(section)
    /\ ncalls' = ncalls + 1
    /\ UNCHANGED <<section, args>>

bending ==
    /\ Callable
    /\ ret' = Bending(section)
    /\ ncalls' = ncalls + 1
    /\ UNCHANGED <<section, args>>

shear ==
    /\ Callable
    /\ ret' = Shear(section)
    /\ ncalls' = ncalls + 1
    /\ UNCHANGED <<section, args>>

deemed(f) ==
    /\ Callable
    /\ ret' = Deemed(section, f)
    /\ ncalls' = ncalls + 1
    /\ UNCHANGED <<section, args>>

\* the caller drops the section (or the failed construction) and starts over
Discard ==
    /\ args # NoArgs
    /\ section' = NoSection
    /\ args' = NoArgs
    /\ ret' = Returned("none", Zero, Zero)
    /\ ncalls' = 0

Init ==
    /\ section = NoSection
    /\ args = NoArgs
    /\ ret = Returned("none", Zero, Zero)
    /\ ncalls = 0

Next ==
    \/ \E D \in DSet, b \in bSet, cover \in coverSet, fc \in fcSet,
          diameter \in diameterSet, spacing \in spacingSet,
          ductility \in ductilitySet, fsy \in fsySet, d \in dSet :
          Concrete(D, b, cover, fc, diameter, spacing, ductility, fsy, d)
    \/ plain_concrete_bending
    \/ plain_concrete_shear
    \/ bending
    \/ shear
    \/ \E f \in fSet : deemed(f)
    \/ Discard

Spec == Init /\ [][Next]_vars

TypeOK == ncalls \in 0..MaxCalls

(***************************************************************************)
(* Properties                                                              *)
(***************************************************************************)
Pos(x) == x[1] > 0

\* a Section as the specification defines it: positive inputs and 0 < d <= D
ValidSection(s) ==
    /\ s # NoSection
    /\ Pos(s.D) /\ Pos(s.b) /\ Pos(s.fc) /\ Pos(s.fsy)
    /\ Pos(s.diameter) /\ Pos(s.spacing)
    /\ Pos(s.d) /\ FLe(s.d, s.D)

CapacityOps ==
    {"bending", "shear", "plain_concrete_bending", "plain_concrete_shear",
     "deemed"}

\* C1: construction produces no Section and fails with InvalidParameter when
\* an input is non-positive or d is outside (0, D], so every Section that
\* exists is valid.
C1_ConstructionValidates ==
    /\ section # NoSection => ValidSection(section)
    /\ ret.op = "__init__" /\ ret.kind # "ok" => ret.kind = "InvalidParameter"

\* C2: on a valid Section every capacity function returns a value; none
\* raises.
C2_NoErrorInCapacity ==
    ValidSection(section) /\ ret.op \in CapacityOps => ret.kind = "ok"

\* C3: on a valid Section shear returns Vuc * phi with phi = 0.75 and no
\* other multiplier.
C3_ShearIsVucPhi ==
    ValidSection(section) /\ ret.op = "shear"
        => ret = Returned("shear", Zero, FMul(Vuc(section), Fl(75, -2)))

\* C4: a supplied d (anything but None) becomes section.d unchanged; the
\* derivation D - cover - diameter/2 is used only when d is not supplied.
C4_ExplicitDOverrides ==
    section # NoSection =>
        /\ args.d # NoneD => section.d = args.d
        /\ args.d = NoneD =>
               section.d = FSub(FSub(args.D, args.cover),
                                FDiv(args.diameter, FromInt(2)))

\* C5: bending returns Muo * phi, where phi is 0.65 for "L"/"l", the value
\* 1.24 - 13*ku/12 clamped into [0.65, 0.85] for "N"/"n", and 0.65 for any
\* other ductility; phi always lies in [0.65, 0.85].
C5_PhiByDuctility ==
    section # NoSection /\ ret.op = "bending" /\ ret.kind = "ok" =>
        LET lin == FSub(Fl(124, -2),
                        FDiv(FMul(FromInt(13), Ku(section)), FromInt(12)))
            clamped == IF FLt(lin, Fl(65, -2)) THEN Fl(65, -2)
                       ELSE IF FLt(Fl(85, -2), lin) THEN Fl(85, -2)
                       ELSE lin
            expected == IF section.ductility \in {"L", "l"} THEN Fl(65, -2)
                        ELSE IF section.ductility \in {"N", "n"} THEN clamped
                        ELSE Fl(65, -2)
        IN  /\ Phi(section) = expected
            /\ FLe(Fl(65, -2), Phi(section))
            /\ FLe(Phi(section), Fl(85, -2))
            /\ ret.val = FMul(Muo(section), expected)

C5_Witness ==
    /\ ValidSection(section)
    /\ ret.op = "bending" /\ ret.kind = "ok"
    /\ section.ductility \in {"N", "n"}
    /\ FLt(Fl(65, -2), Phi(section))
    /\ FLt(Phi(section), Fl(85, -2))

\* C6: a2 and gamma are never below 0.67; for fc >= 120 both are exactly
\* 0.67; for fc below 120 both are the unclamped values 0.85 - 0.0015*fc and
\* 0.97 - 0.0025*fc, which exceed 0.67.
C6_StressBlockFloor ==
    section # NoSection =>
        /\ FLe(Fl(67, -2), section.a2)
        /\ FLe(Fl(67, -2), section.gamma)
        /\ FLe(FromInt(120), section.fc) =>
               section.a2 = Fl(67, -2) /\ section.gamma = Fl(67, -2)
        /\ FLt(section.fc, FromInt(120)) =>
               /\ FLt(Fl(67, -2), section.a2)
               /\ FLt(Fl(67, -2), section.gamma)
               /\ section.a2 = FSub(Fl(85, -2), FMul(Fl(15, -4), section.fc))
               /\ section.gamma = FSub(Fl(97, -2), FMul(Fl(25, -4), section.fc))

C6_Witness ==
    /\ section # NoSection
    /\ section.fc = FromInt(200)
    /\ section.a2 = Fl(67, -2) /\ section.gamma = Fl(67, -2)

\* C7: a capacity call leaves every field of the Section as it was, and a
\* call that repeats the previous call returns what the previous call
\* returned.
C7_CapacityCallsArePure ==
    [][ncalls' = ncalls + 1 =>
          /\ section' = section
          /\ (ret'.op = ret.op /\ ret'.arg = ret.arg => ret' = ret)]_vars

C7_Witness ==
    /\ section # NoSection
    /\ ncalls >= 2
    /\ ret.op = "plain_concrete_bending" /\ ret.kind = "ok"

\* C8: on a valid Section deemed(f) returns a non-negative value, for each
\* of the documented factors f = 0.19, 0.2, 0.24.
C8_DeemedNonNegative ==
    ValidSection(section) /\ ret.op = "deemed" =>
        /\ ret.arg \in fSet
        /\ ret.kind = "ok"
        /\ ret.val[1] >= 0

C8_Witness ==
    /\ ValidSection(section)
    /\ ret.op = "deemed" /\ ret.kind = "ok"
    /\ ret.arg = Fl(2, -1)
    /\ Pos(ret.val)

\* C9: the plain-concrete functions never raise and do not clamp D - 50: for
\* D = 50 both return exactly 0; for D < 50 (with b and fc positive)
\* plain_concrete_shear returns a negative value and plain_concrete_bending
\* a positive one.
C9_PlainConcreteSign ==
    section # NoSection
    /\ ret.op \in {"plain_concrete_bending", "plain_concrete_shear"} =>
        /\ ret.kind = "ok"
        /\ section.D = FromInt(50) => ret.val = Zero
        /\ FLt(section.D, FromInt(50)) /\ Pos(section.b) /\ Pos(section.fc) =>
               IF ret.op = "plain_concrete_shear" THEN ret.val[1] < 0
               ELSE ret.val[1] > 0

C9_Witness ==
    /\ ValidSection(section)
    /\ FLt(section.D, FromInt(50))
    /\ ret.op = "plain_concrete_shear" /\ ret.kind = "ok"
    /\ ret.val[1] < 0

\* C10: Ast is the floored bar area times b/spacing: some integer k with
\* k <= pi*diameter^2/4 < k + 1 has Ast = k * (b/spacing), and Ast does not
\* exceed the unfloored pi*diameter^2/4 * (b/spacing).
C10_FloorThenScale ==
    section # NoSection =>
        LET q == FDiv(section.b, section.spacing)
            bar == BarArea(section.diameter)
        IN  /\ \E k \in 0..200 :
                /\ FLe(FromInt(k), bar)
                /\ FLt(bar, FromInt(k + 1))
                /\ section.Ast = FMul(FromInt(k), q)
            /\ FLe(section.Ast, FMul(bar, q))

C10_Witness ==
    /\ ValidSection(section)
    /\ FLt(section.Ast,
           FMul(BarArea(section.diameter), FDiv(section.b, section.spacing)))

====
